---- MODULE Spec2Model ----
(***************************************************************************)
(* Resource-usage watchdog (src/index.js).  The file holds two variants of *)
(* the same program: variant 1 (lines 1-125, notify only) and variant 2,   *)
(* the "abuse log script" (lines 129-389, notify then kill).  Both are     *)
(* modelled; `variant` says which one a behaviour runs.                    *)
(*                                                                         *)
(* JavaScript runs one callback at a time: every action below is the code  *)
(* that runs between two awaits.  A pending request (fetch) is a task or   *)
(* loop position; the response that arrives is the action's input.         *)
(***************************************************************************)
EXTENDS Integers, Sequences, FiniteSets, TLC

(* ---- program constants ---- *)
BATCH_SIZE == 5
RETRY_LIMIT == 3
REPORT_THRESHOLD_SECONDS == 7200
KILL_THRESHOLD_SECONDS == 10800
SpecialKillThresholdSeconds == 18000
BytesPerMB == 1024 * 1024

(* ---- bounds of the model ---- *)
\* the clock advances in steps of TimeStep seconds, MaxTicks times at most
TimeStep == 3600
MaxTicks == 5

VARIABLES
  variant,          \* 1: lines 1-125, 2: lines 129-389
  now,              \* Date.now(), in seconds
  overLimitTracker, \* uuid -> record; a uuid without a record is not in the domain
  pc,               \* position of the main loop
  fleet,            \* which fleet the management API lists: "small" or "big"
  page,             \* getAllServersFromAppAPI: index of the page nextPageUrl names
  serverUUIDs,      \* getAllServersFromAppAPI: the entries collected so far
  servers,          \* main loop: the directory of this cycle
  i,                \* main loop: index of this batch's first server (0-based)
  tasks,            \* the getServerResources calls of the batch in flight
  issued,           \* history: the batches issued in this cycle, in order
  episodeNotifies,  \* history: uuid -> Notify calls since the last observed recovery
  lastEnd,          \* history: uuid -> how its last deleted record ended
  skipped,          \* history: the entries the directory call in progress has skipped
  failedPage,       \* history: the page on which this cycle's directory failed, or 0
  listed,           \* history: the entries the pages of this cycle's directory listed
                    \*   (kept by ListingSpec only)
  call,             \* one fetchWithRetry call, attempt by attempt (FetchSpec)
  probe             \* one application of the breach test of lines 231-250 (BreachSpec)

vars == <<variant, now, overLimitTracker, pc, fleet, page, serverUUIDs, servers, i,
          tasks, issued, episodeNotifies, lastEnd, skipped, failedPage, listed,
          call, probe>>

\* what no step changes, the main loop's variables, the directory's history
world == <<variant, fleet, call, probe>>
loop == <<pc, page, serverUUIDs, servers, i, issued>>
dirHistory == <<skipped, failedPage, listed>>

(* ---- the management API's data ---- *)
NoLimits == [cpu |-> 0, memory |-> 0, disk |-> 0]
SrvA == [uuid |-> "a", nest |-> 2, limits |-> [cpu |-> 100, memory |-> 1024, disk |-> 0]]
SrvG == [uuid |-> "g", nest |-> 1, limits |-> [cpu |-> 100, memory |-> 0, disk |-> 0]]
SrvA6 == [uuid |-> "a", nest |-> 6, limits |-> [cpu |-> 100, memory |-> 1024, disk |-> 0]]
Unlimited(u) == [uuid |-> u, nest |-> 3, limits |-> NoLimits]

UUIDs == {"a", "g", "s1", "s2", "s3", "s4", "s5", "s6", "s7"}

\* One page of the listing is one request, and the fleet may change between
\* two requests.  The small fleet answers each request with any of its pages,
\* with or without a link to a next page, so a server can be listed on two
\* pages of one directory; the big fleet lists five servers on its first page
\* and two on every later one.
MaxPages == 2
SmallPages == { <<>>, <<SrvA>>, <<SrvG>>, <<SrvA6>>, <<Unlimited("s1")>> }
BigFirstPage ==
  <<Unlimited("s1"), Unlimited("s2"), Unlimited("s3"), Unlimited("s4"), Unlimited("s5")>>
BigNextPage == <<Unlimited("s6"), Unlimited("s7")>>
Pages(f, k) ==
  IF f = "small" THEN SmallPages
  ELSE IF k = 1 THEN {BigFirstPage} ELSE {BigNextPage}

\* resource snapshots (data.attributes.resources)
Snapshots ==
  { [cpu_absolute |-> 0, memory_bytes |-> 0, disk_bytes |-> 0],
    [cpu_absolute |-> 100, memory_bytes |-> 0, disk_bytes |-> 0],
    [cpu_absolute |-> 99, memory_bytes |-> 1024 * BytesPerMB, disk_bytes |-> 512 * BytesPerMB] }

RECURSIVE fetchWithRetry(_, _)
\* fetchWithRetry(url, headers, retries) against the answers the server gives,
\* first to last: what it returns ("json" or "null") and the requests it sent.
\* Between two attempts it only sleeps, so a caller sees the call as one step.
fetchWithRetry(answers, retries) ==
  IF answers = <<>> THEN [data |-> "null", requests |-> 0]
  ELSE IF Head(answers) = "ok" THEN [data |-> "json", requests |-> 1]
  ELSE IF Head(answers) = "504" /\ retries > 0
  THEN LET again == fetchWithRetry(Tail(answers), retries - 1)
       IN [again EXCEPT !.requests = @ + 1]
  ELSE [data |-> "null", requests |-> 1]

\* what a request can come back with: a good response, status 504, another
\* error status, a network error, a good status with a body that is no JSON
FetchResponses == {"ok", "504", "status", "neterr", "badjson"}
PostResponses == {"ok", "status", "neterr"}

\* the answers one fetchWithRetry call meets: k times 504, then resp
MaxGatewayTimeouts == 4
Answers(k, resp) == [j \in 1..(k + 1) |-> IF j <= k THEN "504" ELSE resp]
AnswerStreams ==
  { Answers(k, resp) : k \in 0..MaxGatewayTimeouts, resp \in FetchResponses \ {"504"} }

\* what fetchWithRetry can return, over the answers the server can give
ReturnValues == { fetchWithRetry(answers, RETRY_LIMIT).data : answers \in AnswerStreams }

\* no fetchWithRetry call, no breach test under study: the whole program runs
NoCall == [answers |-> <<>>, retries |-> 0, requests |-> 0, result |-> "none"]
NoProbe == [limits |-> NoLimits, resources |-> <<>>, breach |-> "none"]

(* ---- helpers ---- *)
Min(x, y) == IF x <= y THEN x ELSE y

RECURSIVE Skipped(_)
\* the entries of a page that getAllServersFromAppAPI skips, in page order
Skipped(pg) ==
  IF pg = <<>> THEN <<>>
  ELSE IF Head(pg).nest = 1 \/ Head(pg).nest = 6
       THEN <<Head(pg)>> \o Skipped(Tail(pg))
       ELSE Skipped(Tail(pg))

\* (variation) every listed entry is kept
FilterKeepsAll(pg) == pg

RECURSIVE Filter(_)
\* the entries of a page that getAllServersFromAppAPI keeps, in page order
Filter(pg) ==
  IF pg = <<>> THEN <<>>
  ELSE IF Head(pg).nest = 1 \/ Head(pg).nest = 6
       THEN Filter(Tail(pg))
       ELSE <<Head(pg)>> \o Filter(Tail(pg))

\* The quotient n / 2 ** k of JavaScript, for an integer n: a double holds it
\* exactly (n is below 2 ** 53 and the division only lowers the exponent), so
\* it is the dyadic number with numerator num and denominator 2 ** exp.
DivPow2(n, k) == [num |-> n, exp |-> k]
\* x >= y on two such numbers, both brought to the smaller denominator's scale
Geq(x, y) ==
  LET e == Min(x.exp, y.exp)
  IN x.num * 2^(y.exp - e) >= y.num * 2^(x.exp - e)

\* usage and limits in GB: bytes / (1024 ** 3) and MB / 1024
memoryGB(resources) == DivPow2(resources.memory_bytes, 30)
diskGB(resources) == DivPow2(resources.disk_bytes, 30)
memoryLimitGB(limits) == DivPow2(limits.memory, 10)
diskLimitGB(limits) == DivPow2(limits.disk, 10)

\* (variation) a limit of 0 is a limit like any other
OverLimitZeroIsLimit(limits, resources) ==
  \/ resources.cpu_absolute >= limits.cpu
  \/ Geq(memoryGB(resources), memoryLimitGB(limits))
  \/ Geq(diskGB(resources), diskLimitGB(limits))

\* (variation) usage equal to the limit is no breach
OverLimitStrict(limits, resources) ==
  \/ (limits.cpu > 0 /\ resources.cpu_absolute > limits.cpu)
  \/ (limits.memory > 0 /\ ~Geq(memoryLimitGB(limits), memoryGB(resources)))
  \/ (limits.disk > 0 /\ ~Geq(diskLimitGB(limits), diskGB(resources)))

\* the breach test of lines 246-250 (and 81-85)
OverLimit(limits, resources) ==
  \/ (limits.cpu > 0 /\ resources.cpu_absolute >= limits.cpu)
  \/ (limits.memory > 0 /\ Geq(memoryGB(resources), memoryLimitGB(limits)))
  \/ (limits.disk > 0 /\ Geq(diskGB(resources), diskLimitGB(limits)))

isSpecialNest(nest) == nest = 1 \/ nest = 6
customKillThresholdSeconds(nest) ==
  IF isSpecialNest(nest) THEN SpecialKillThresholdSeconds ELSE KILL_THRESHOLD_SECONDS

\* a getServerResources call on entry e, as it is when its first request is sent
NewTask(e) ==
  [srv |-> e, pc |-> "fetch", elapsedTime |-> -1,
   found |-> "none", acts |-> <<>>]

\* batch.map(server => getServerResources(...)) on servers.slice(from, from + BATCH_SIZE)
Slice(srvs, from) ==
  [k \in 1..(Min(from + BATCH_SIZE, Len(srvs)) - from) |-> srvs[from + k]]
BatchTasks(srvs, from) ==
  [k \in 1..Len(Slice(srvs, from)) |-> NewTask(Slice(srvs, from)[k])]
Uuids(batch) == [k \in 1..Len(batch) |-> batch[k].uuid]

Remove(f, u) == [x \in DOMAIN f \ {u} |-> f[x]]
Put(f, u, r) == [x \in DOMAIN f \cup {u} |-> IF x = u THEN r ELSE f[x]]

Init ==
  /\ variant \in {1, 2}
  /\ now = 0
  /\ overLimitTracker = <<>>
  /\ pc = "dir"
  /\ fleet \in {"small", "big"}
  /\ page = 1
  /\ serverUUIDs = <<>>
  /\ servers = <<>>
  /\ i = 0
  /\ tasks = <<>>
  /\ issued = <<>>
  /\ episodeNotifies = [u \in UUIDs |-> 0]
  /\ lastEnd = [u \in UUIDs |-> "none"]
  /\ skipped = <<>>
  /\ failedPage = 0
  /\ listed = <<>>
  /\ call = NoCall
  /\ probe = NoProbe

\* the clock advances
Tick ==
  /\ now < MaxTicks * TimeStep
  /\ now' = now + TimeStep
  /\ UNCHANGED <<world, loop, dirHistory, overLimitTracker, tasks, episodeNotifies, lastEnd>>

(* ---- the main loop and the directory ---- *)

\* the main loop with the directory srvs in hand: the first batch, or, for an
\* empty directory, straight to the sleep between cycles
EnterLoop(srvs) ==
  /\ servers' = srvs
  /\ i' = 0
  /\ IF Len(srvs) > 0
     THEN /\ tasks' = BatchTasks(srvs, 0)
          /\ issued' = <<Uuids(Slice(srvs, 0))>>
          /\ pc' = "batch"
     ELSE /\ tasks' = <<>>
          /\ issued' = <<>>
          /\ pc' = "cycleDelay"

\* (variation) a failed page returns the entries collected so far
DirFailKeepsCollected(collected) == collected

\* what getAllServersFromAppAPI returns when a page's fetchWithRetry is null
DirFailResult(collected) == <<>>

\* fetchWithRetry of a directory page returns: the page data (its entries are
\* filtered and collected, and after the last page the directory goes to the
\* main loop), or null (the directory is [])
DirPage(what, data, next) ==
  /\ pc = "dir"
  /\ what \in ReturnValues
  /\ next => page < MaxPages
  /\ LET collected == serverUUIDs \o Filter(data) IN
       IF what = "null"
       THEN /\ serverUUIDs' = <<>>
            /\ page' = 1
            /\ skipped' = <<>>
            /\ failedPage' = page
            /\ EnterLoop(DirFailResult(serverUUIDs))
       ELSE IF next
       THEN /\ serverUUIDs' = collected
            /\ page' = page + 1
            /\ skipped' = skipped \o Skipped(data)
            /\ UNCHANGED <<pc, servers, i, tasks, issued, failedPage>>
       ELSE /\ serverUUIDs' = <<>>
            /\ page' = 1
            /\ skipped' = <<>>
            /\ UNCHANGED failedPage
            /\ EnterLoop(collected)
  /\ UNCHANGED <<world, now, overLimitTracker, episodeNotifies, lastEnd>>

(* ---- getServerResources: one task per server of the batch ---- *)

\* Task fields: srv, the directory entry; pc, the request the call waits for
\* ("fetch", "notify", "kill", "log") or how it ended ("done", "failed": it
\* threw; "hung": a request never came back); elapsedTime, the local of line 259
\* while it is still read (-1 otherwise); history: found, what the evaluation
\* found ("none": no evaluation, "ok": within limits, "over"), and acts, the
\* escalation actions the call has invoked, in order.
Pending(t) == t \in DOMAIN tasks /\ tasks[t].pc \in {"fetch", "notify", "kill", "log"}
SetTask(t, r) == tasks' = [tasks EXCEPT ![t] = r]
Emit(task, a) == [task EXCEPT !.acts = Append(@, a)]
At(task, where) == [task EXCEPT !.pc = where, !.elapsedTime = -1]
Bump(n) == Min(n + 1, 2)
Ended(u, how) ==
  IF u \in DOMAIN overLimitTracker THEN [lastEnd EXCEPT ![u] = how] ELSE lastEnd

\* (variation) a call without data forgets the server's record
ResourcesNullForgets(t) ==
  /\ Pending(t) /\ tasks[t].pc = "fetch"
  /\ "null" \in ReturnValues
  /\ SetTask(t, At(tasks[t], "done"))
  /\ overLimitTracker' = [u \in DOMAIN overLimitTracker \ {tasks[t].srv.uuid} |->
                            overLimitTracker[u]]
  /\ UNCHANGED <<world, loop, dirHistory, now, episodeNotifies, lastEnd>>

\* fetchWithRetry of the snapshot is null: the call returns
ResourcesNull(t) ==
  /\ Pending(t) /\ tasks[t].pc = "fetch"
  /\ "null" \in ReturnValues
  /\ SetTask(t, At(tasks[t], "done"))
  /\ UNCHANGED <<world, loop, dirHistory, now, overLimitTracker, episodeNotifies, lastEnd>>

\* (variation) every evaluation over the limits starts the record's clock anew
TrackedRecordRestarts(tracker, u, time) ==
  [startTime |-> time,
   reported |-> (u \in DOMAIN tracker /\ tracker[u].reported),
   isOverLimit |-> TRUE]

\* the record an over-limit evaluation works on (variant 2): the one there
\* is, or a new one starting now, marked isOverLimit
TrackedRecord(tracker, u, time) ==
  IF u \in DOMAIN tracker
  THEN [tracker[u] EXCEPT !.isOverLimit = TRUE]
  ELSE [startTime |-> time, reported |-> FALSE, isOverLimit |-> TRUE]

\* (variation) no report is ever due
ReportNever(elapsedTime, rec) == FALSE

\* (variation) the report is sent at the first breach
ReportDueAtOnce(elapsedTime, rec) == ~rec.reported

\* whether the evaluation sends the report (variant 2)
ReportDue(elapsedTime, rec) ==
  elapsedTime >= REPORT_THRESHOLD_SECONDS /\ ~rec.reported

\* (variation) no breach is long enough for a kill
KillNever(elapsedTime, nest) == FALSE

\* (variation) the kill is decided on the report threshold
KillDueAtReport(elapsedTime, nest) == elapsedTime >= REPORT_THRESHOLD_SECONDS

\* whether the evaluation kills the server (variant 2)
KillDue(elapsedTime, nest) == elapsedTime >= customKillThresholdSeconds(nest)

\* (variation) the record survives the recovery
RecoveredKeepsRecord(tracker, u) == tracker

\* the tracker after an evaluation found the server within its limits
Recovered(tracker, u) == IF u \in DOMAIN tracker THEN Remove(tracker, u) ELSE tracker

\* variant 2, lines 246-281, up to the first request the evaluation sends
Evaluate2(t, resources) ==
  LET task == tasks[t]
      u == task.srv.uuid
  IN IF OverLimit(task.srv.limits, resources)
     THEN LET rec == TrackedRecord(overLimitTracker, u, now)
              elapsedTime == now - rec.startTime
              seen == [task EXCEPT !.found = "over"]
          IN /\ overLimitTracker' = Put(overLimitTracker, u, rec)
             /\ UNCHANGED lastEnd
             /\ IF ReportDue(elapsedTime, rec)
                THEN /\ SetTask(t, [At(Emit(seen, "Notify"), "notify")
                                      EXCEPT !.elapsedTime = elapsedTime])
                     /\ episodeNotifies' = [episodeNotifies EXCEPT ![u] = Bump(@)]
                ELSE /\ UNCHANGED episodeNotifies
                     /\ IF KillDue(elapsedTime, task.srv.nest)
                        THEN SetTask(t, At(Emit(seen, "Terminate"), "kill"))
                        ELSE SetTask(t, At(seen, "done"))
     ELSE /\ overLimitTracker' = Recovered(overLimitTracker, u)
          /\ SetTask(t, At([task EXCEPT !.found = "ok"], "done"))
          /\ episodeNotifies' = [episodeNotifies EXCEPT ![u] = 0]
          /\ lastEnd' = Ended(u, "recovered")

\* whether variant 1 sends the report
ReportDue1(tracker, u) == ~(u \in DOMAIN tracker /\ tracker[u].reported)

\* variant 1, lines 81-92, up to the request the evaluation sends
Evaluate1(t, resources) ==
  LET task == tasks[t]
      u == task.srv.uuid
  IN IF OverLimit(task.srv.limits, resources)
     THEN /\ UNCHANGED <<overLimitTracker, lastEnd>>
          /\ IF ReportDue1(overLimitTracker, u)
             THEN /\ SetTask(t, At(Emit([task EXCEPT !.found = "over"], "Notify"), "notify"))
                  /\ episodeNotifies' = [episodeNotifies EXCEPT ![u] = Bump(@)]
             ELSE /\ SetTask(t, At([task EXCEPT !.found = "over"], "done"))
                  /\ UNCHANGED episodeNotifies
     ELSE /\ overLimitTracker' = Recovered(overLimitTracker, u)
          /\ SetTask(t, At([task EXCEPT !.found = "ok"], "done"))
          /\ episodeNotifies' = [episodeNotifies EXCEPT ![u] = 0]
          /\ lastEnd' = Ended(u, "recovered")

\* the snapshot arrives: the server is evaluated
ResourcesOk(t, resources) ==
  /\ Pending(t) /\ tasks[t].pc = "fetch"
  /\ "json" \in ReturnValues
  /\ IF variant = 2 THEN Evaluate2(t, resources) ELSE Evaluate1(t, resources)
  /\ UNCHANGED <<world, loop, dirHistory, now>>

\* whether a failed delivery of the report throws out of notifyServerOverLimit:
\* variant 1 awaits the request outside any try, variant 2 catches
NotifyThrows(v, resp) == v = 1 /\ resp = "neterr"

\* the webhook request of the report comes back, well or not
NotifyReturn(t, resp) ==
  /\ Pending(t) /\ tasks[t].pc = "notify"
  /\ LET task == tasks[t]
         u == task.srv.uuid
     IN IF NotifyThrows(variant, resp)
        THEN \* the rejection of fetch leaves getServerResources
             /\ SetTask(t, At(task, "failed"))
             /\ UNCHANGED overLimitTracker
        ELSE IF variant = 1
        THEN /\ overLimitTracker' = Put(overLimitTracker, u, [reported |-> TRUE])
             /\ SetTask(t, At(task, "done"))
        ELSE IF u \notin DOMAIN overLimitTracker
        THEN \* line 265 on a deleted record: TypeError
             /\ SetTask(t, At(task, "failed"))
             /\ UNCHANGED overLimitTracker
        ELSE /\ overLimitTracker' = [overLimitTracker EXCEPT ![u].reported = TRUE]
             /\ IF KillDue(task.elapsedTime, task.srv.nest)
                THEN SetTask(t, At(Emit(task, "Terminate"), "kill"))
                ELSE SetTask(t, At(task, "done"))
  /\ UNCHANGED <<world, loop, dirHistory, now, episodeNotifies, lastEnd>>

\* the kill request comes back, well or not: the audit entry is sent
KillReturn(t, resp) ==
  /\ Pending(t) /\ tasks[t].pc = "kill"
  /\ SetTask(t, At(tasks[t], "log"))
  /\ UNCHANGED <<world, loop, dirHistory, now, overLimitTracker, episodeNotifies, lastEnd>>

\* the tracker after the kill and its audit entry
Killed(tracker, u) == Remove(tracker, u)

\* the audit request comes back, well or not: the record is deleted
LogReturn(t, resp) ==
  /\ Pending(t) /\ tasks[t].pc = "log"
  /\ overLimitTracker' = Killed(overLimitTracker, tasks[t].srv.uuid)
  /\ lastEnd' = Ended(tasks[t].srv.uuid, "killed")
  /\ SetTask(t, At(tasks[t], "done"))
  /\ UNCHANGED <<world, loop, dirHistory, now, episodeNotifies>>

\* a request of the task never comes back (no timeout is set)
Hang(t) ==
  /\ Pending(t)
  /\ SetTask(t, At(tasks[t], "hung"))
  /\ UNCHANGED <<world, loop, dirHistory, now, overLimitTracker, episodeNotifies, lastEnd>>

(* ---- the main loop: Promise.all and the two delays ---- *)

\* when Promise.all of the batch fulfils
JoinReady(ts) == \A t \in DOMAIN ts : ts[t].pc = "done"

\* every task of the batch has returned: the loop goes on to the delay
BatchJoin ==
  /\ pc = "batch"
  /\ JoinReady(tasks)
  /\ pc' = "batchDelay"
  /\ tasks' = <<>>
  /\ UNCHANGED <<world, dirHistory, now, overLimitTracker, page, serverUUIDs, servers, i,
                 issued, episodeNotifies, lastEnd>>

\* a task of the batch has thrown: Promise.all rejects, the rejection leaves
\* the loop's async function and nothing handles it; the tasks still pending
\* are not cancelled
BatchReject ==
  /\ pc = "batch"
  /\ \E t \in DOMAIN tasks : tasks[t].pc = "failed"
  /\ pc' = "crashed"
  /\ UNCHANGED <<world, dirHistory, now, overLimitTracker, page, serverUUIDs, servers, i,
                 tasks, issued, episodeNotifies, lastEnd>>

\* the delay between batches is over: the next batch, or the sleep of the cycle
BatchDelayDone ==
  /\ pc = "batchDelay"
  /\ i' = i + BATCH_SIZE
  /\ IF i' < Len(servers)
     THEN /\ tasks' = BatchTasks(servers, i')
          /\ issued' = Append(issued, Uuids(Slice(servers, i')))
          /\ pc' = "batch"
     ELSE /\ pc' = "cycleDelay"
          /\ UNCHANGED <<tasks, issued>>
  /\ UNCHANGED <<world, dirHistory, now, overLimitTracker, page, serverUUIDs, servers,
                 episodeNotifies, lastEnd>>

\* the sleep between cycles is over: the next cycle asks for the directory
CycleDelayDone ==
  /\ pc = "cycleDelay"
  /\ pc' = "dir"
  /\ failedPage' = 0
  /\ listed' = <<>>
  /\ UNCHANGED <<world, now, overLimitTracker, page, serverUUIDs, servers, i, tasks, issued,
                 episodeNotifies, lastEnd, skipped>>

Next ==
  \/ Tick
  \/ \E what \in {"json", "null"}, data \in Pages(fleet, page), next \in BOOLEAN :
       DirPage(what, data, next) /\ UNCHANGED listed
  \/ \E t \in 1..BATCH_SIZE : ResourcesNull(t)
  \/ \E t \in 1..BATCH_SIZE, resources \in Snapshots : ResourcesOk(t, resources)
  \/ \E t \in 1..BATCH_SIZE, resp \in PostResponses : NotifyReturn(t, resp)
  \/ \E t \in 1..BATCH_SIZE, resp \in PostResponses : KillReturn(t, resp)
  \/ \E t \in 1..BATCH_SIZE, resp \in PostResponses : LogReturn(t, resp)
  \/ \E t \in 1..BATCH_SIZE : Hang(t)
  \/ BatchJoin
  \/ BatchReject
  \/ BatchDelayDone
  \/ CycleDelayDone

Spec == Init /\ [][Next]_vars

(* ---- fetchWithRetry, attempt by attempt ---- *)

\* the main loop is not running: the study of one function on its own
LoopOff ==
  /\ now = 0
  /\ overLimitTracker = <<>>
  /\ pc = "off"
  /\ fleet = "small"
  /\ page = 1
  /\ serverUUIDs = <<>>
  /\ servers = <<>>
  /\ i = 0
  /\ tasks = <<>>
  /\ issued = <<>>
  /\ episodeNotifies = [u \in UUIDs |-> 0]
  /\ lastEnd = [u \in UUIDs |-> "none"]
  /\ skipped = <<>>
  /\ failedPage = 0
  /\ listed = <<>>

\* a caller calls fetchWithRetry(url, headers), retries defaulting to
\* RETRY_LIMIT; call.answers is what the server will answer, request by request
FetchInit ==
  /\ variant \in {1, 2}
  /\ call \in { [answers |-> a, retries |-> RETRY_LIMIT, requests |-> 0, result |-> "pending"] :
                   a \in AnswerStreams }
  /\ probe = NoProbe
  /\ LoopOff

\* the answer to the request the call sends next; the server goes on giving
\* its last answer
NextAnswer == call.answers[Min(call.requests + 1, Len(call.answers))]

\* (variation) any error status is retried
RetryOnAnyStatus(status, retries) == status \in {"504", "status"} /\ retries > 0

\* the condition of the retry branch
ShouldRetry(status, retries) == status = "504" /\ retries > 0

FetchReturns(data) ==
  /\ call' = [call EXCEPT !.requests = @ + 1, !.result = data]
  /\ UNCHANGED <<variant, fleet, probe, loop, dirHistory, now, overLimitTracker, tasks,
                 episodeNotifies, lastEnd>>

\* response.ok and the body parses: the JSON is returned
FetchJson ==
  /\ call.result = "pending"
  /\ NextAnswer = "ok"
  /\ FetchReturns("json")

\* status 504 with retries left: the delay, then the recursive call
FetchRetry ==
  /\ call.result = "pending"
  /\ ShouldRetry(NextAnswer, call.retries)
  /\ call' = [call EXCEPT !.requests = @ + 1, !.retries = @ - 1]
  /\ UNCHANGED <<variant, fleet, probe, loop, dirHistory, now, overLimitTracker, tasks,
                 episodeNotifies, lastEnd>>

\* another status, or 504 with no retry left: null
FetchFailed ==
  /\ call.result = "pending"
  /\ NextAnswer \in {"504", "status"}
  /\ ~ShouldRetry(NextAnswer, call.retries)
  /\ FetchReturns("null")

\* fetch rejects, or response.json() throws: the catch returns null
FetchCaught ==
  /\ call.result = "pending"
  /\ NextAnswer \in {"neterr", "badjson"}
  /\ FetchReturns("null")

FetchNext == FetchJson \/ FetchRetry \/ FetchFailed \/ FetchCaught

FetchSpec == FetchInit /\ [][FetchNext]_vars

(* ---- the directory with the history of what its pages listed ---- *)

\* the page that arrived is added to the history of the listing
DirPageListed(what, data, next) ==
  /\ DirPage(what, data, next)
  /\ listed' = IF what = "null" THEN listed ELSE listed \o data

\* The cycles of the first TimeStep seconds: the clock does not advance, so no
\* kill is due (variant 1 has none, and reports at the first breach); no
\* request hangs.
ListingNext ==
  \/ \E what \in {"json", "null"}, data \in Pages(fleet, page), next \in BOOLEAN :
       DirPageListed(what, data, next)
  \/ \E t \in 1..BATCH_SIZE : ResourcesNull(t)
  \/ \E t \in 1..BATCH_SIZE, resources \in Snapshots : ResourcesOk(t, resources)
  \/ \E t \in 1..BATCH_SIZE, resp \in PostResponses : NotifyReturn(t, resp)
  \/ BatchJoin
  \/ BatchReject
  \/ BatchDelayDone
  \/ CycleDelayDone

ListingSpec == Init /\ [][ListingNext]_vars

(* ---- a server that stays over its limits, with time going on for ever ---- *)

\* The program compares now - startTime with thresholds of MaxTicks * TimeStep
\* seconds at most.  Once the clock of the model stands at that value, an
\* hour more on the real clock is every startTime an hour earlier on the
\* model's, down to 0: the elapsed times keep growing up to that value, above
\* which the program does not tell them apart.
Max(x, y) == IF x >= y THEN x ELSE y
Earlier(tracker) ==
  [u \in DOMAIN tracker |-> [tracker[u] EXCEPT !.startTime = Max(@ - TimeStep, 0)]]

LiveTick ==
  /\ IF now < MaxTicks * TimeStep
     THEN now' = now + TimeStep /\ UNCHANGED overLimitTracker
     ELSE now' = now /\ overLimitTracker' = Earlier(overLimitTracker)
  /\ UNCHANGED <<world, loop, dirHistory, tasks, episodeNotifies, lastEnd>>

\* the snapshots that find server SrvA over its limits
BreachingSnapshots == { r \in Snapshots : OverLimit(SrvA.limits, r) }

LiveInit == Init /\ variant = 2 /\ fleet = "small"

\* every directory lists SrvA, once; every snapshot fetch succeeds, with a
\* snapshot over the limits; every delivery returns
LiveDir == DirPage("json", <<SrvA>>, FALSE) /\ UNCHANGED listed
LiveResources == \E resources \in BreachingSnapshots : ResourcesOk(1, resources)
LiveNotify == \E resp \in PostResponses : NotifyReturn(1, resp)
LiveKill == \E resp \in PostResponses : KillReturn(1, resp)
LiveLog == \E resp \in PostResponses : LogReturn(1, resp)

LiveNext ==
  \/ LiveTick
  \/ LiveDir
  \/ LiveResources
  \/ LiveNotify
  \/ LiveKill
  \/ LiveLog
  \/ BatchJoin
  \/ BatchDelayDone
  \/ CycleDelayDone

\* the event loop runs every callback that is ready, every request is
\* answered, every timer fires, and the clock goes on
LiveSpec ==
  /\ LiveInit
  /\ [][LiveNext]_vars
  /\ WF_vars(LiveTick)
  /\ WF_vars(LiveDir)
  /\ WF_vars(LiveResources)
  /\ WF_vars(LiveNotify)
  /\ WF_vars(LiveKill)
  /\ WF_vars(LiveLog)
  /\ WF_vars(BatchJoin)
  /\ WF_vars(BatchDelayDone)
  /\ WF_vars(CycleDelayDone)

(* ---- the breach test on its own ---- *)

\* limits run over 0..MaxLimit (percent, MB), usage over the values next to them
MaxLimit == 2
LimitsUnderTest == [cpu : 0..MaxLimit, memory : 0..MaxLimit, disk : 0..MaxLimit]
BytesUnderTest ==
  { m * BytesPerMB + d : m \in 0..MaxLimit, d \in {-1, 0, 1} } \cap Nat
ResourcesUnderTest ==
  [cpu_absolute : 0..(MaxLimit + 1), memory_bytes : BytesUnderTest, disk_bytes : BytesUnderTest]

\* getServerResources has a snapshot of a server with some limits in hand
BreachInit ==
  /\ variant \in {1, 2}
  /\ probe \in { [limits |-> l, resources |-> r, breach |-> "none"] :
                    l \in LimitsUnderTest, r \in ResourcesUnderTest }
  /\ call = NoCall
  /\ LoopOff

\* the if of lines 246-250 is decided
BreachTest ==
  /\ probe.breach = "none"
  /\ probe' = [probe EXCEPT !.breach =
                  IF OverLimit(probe.limits, probe.resources) THEN "over" ELSE "ok"]
  /\ UNCHANGED <<variant, fleet, call, loop, dirHistory, now, overLimitTracker, tasks,
                 episodeNotifies, lastEnd>>

BreachNext == BreachTest

BreachSpec == BreachInit /\ [][BreachNext]_vars

(* ---- what the claims speak of ---- *)

Task(t) == tasks[t]
InBatch(t) == t \in DOMAIN tasks
\* task t of the batch in flight takes a step of its own
Steps(t) == t \in DOMAIN tasks /\ t \in DOMAIN tasks' /\ tasks'[t] # tasks[t]
\* the step in which task t evaluates its snapshot
Evaluates(t) == Steps(t) /\ tasks[t].pc = "fetch" /\ tasks'[t].found # "none"
\* the step in which task t invokes the escalation action a
Emits(t, a) ==
  /\ Steps(t)
  /\ Len(tasks'[t].acts) = Len(tasks[t].acts) + 1
  /\ tasks'[t].acts[Len(tasks'[t].acts)] = a
\* the elapsed time the evaluation of task t works with in this step
ElapsedAt(t) ==
  IF tasks[t].pc = "notify" THEN tasks[t].elapsedTime
  ELSE now - overLimitTracker'[tasks[t].srv.uuid].startTime
InFlight == {t \in DOMAIN tasks : tasks[t].pc \notin {"done", "failed"}}
NumBatches(n) == (n + BATCH_SIZE - 1) \div BATCH_SIZE
\* the main loop can take no further step: its promise is rejected, or every
\* task of the batch has returned or waits for a request that never comes back
Stopped ==
  \/ pc = "crashed"
  \/ /\ pc = "batch"
     /\ \A t \in DOMAIN tasks : tasks[t].pc \in {"done", "hung"}
     /\ \E t \in DOMAIN tasks : tasks[t].pc = "hung"

(* ---- claims ---- *)

\* C1: (variant 2) within one breach episode, that is while no evaluation has
\* found the instance back within its limits, Notify is emitted at most once.
C1_NotifyOncePerEpisode ==
  variant = 2 => \A u \in UUIDs : episodeNotifies[u] <= 1

\* C2: (variant 2) an evaluation that finds the instance in breach with
\* elapsed time >= kill_after goes on to emit Terminate, whatever the notified
\* flag, and the record is absent when it completes; a breaching evaluation
\* that finds no record creates one that starts now with notified = false.
C2_TerminateAtKillAfter ==
  [][\A t \in 1..BATCH_SIZE : (variant = 2 /\ Steps(t)) =>
       LET u == tasks[t].srv.uuid
           killAfter == customKillThresholdSeconds(tasks[t].srv.nest)
       IN /\ (Evaluates(t) /\ tasks'[t].found = "over" /\ ElapsedAt(t) >= killAfter)
               => tasks'[t].pc \in {"notify", "kill"}
          /\ (tasks[t].pc = "notify" /\ tasks[t].elapsedTime >= killAfter)
               => (tasks'[t].pc \in {"kill", "hung"}
                   /\ (tasks'[t].pc = "kill" => Emits(t, "Terminate")))
          /\ (tasks[t].pc = "log" /\ tasks'[t].pc = "done")
               => u \notin DOMAIN overLimitTracker'
          /\ (Evaluates(t) /\ tasks'[t].found = "over" /\ u \notin DOMAIN overLimitTracker)
               => (overLimitTracker'[u].startTime = now /\ ~overLimitTracker'[u].reported)
    ]_vars

\* C3: an evaluation that finds the instance within its limits leaves it
\* without a record, and (variant 2) a breaching evaluation that finds no
\* record creates one whose breach start is the time of this evaluation and
\* whose notified flag is false, and emits nothing.
C3_RecoveryResetsTimer ==
  [][\A t \in 1..BATCH_SIZE : Evaluates(t) =>
       LET u == tasks[t].srv.uuid
       IN /\ tasks'[t].found = "ok" => u \notin DOMAIN overLimitTracker'
          /\ (variant = 2 /\ tasks'[t].found = "over" /\ u \notin DOMAIN overLimitTracker)
               => /\ u \in DOMAIN overLimitTracker'
                  /\ overLimitTracker'[u].startTime = now
                  /\ ~overLimitTracker'[u].reported
                  /\ tasks'[t].acts = <<>>
    ]_vars

\* a record that started after a recovery deleted the one before it
C3_Witness ==
  /\ variant = 2
  /\ lastEnd["a"] = "recovered"
  /\ "a" \in DOMAIN overLimitTracker
  /\ overLimitTracker["a"].startTime = now
  /\ now > 0
  /\ ~overLimitTracker["a"].reported

\* C4: the poll loop processes the instances of the distinguished subset
\* (nest 1 or 6): the directory skips none of them; and Terminate is emitted
\* only when the elapsed time has reached the instance's kill threshold, 18000
\* for that subset and 10800 for the others.
C4_OverrideForSpecialNests ==
  [][/\ \A k \in 1..Len(skipped') : ~isSpecialNest(skipped'[k].nest)
     /\ \A t \in 1..BATCH_SIZE : Emits(t, "Terminate") =>
          ElapsedAt(t) >= (IF isSpecialNest(tasks[t].srv.nest)
                           THEN SpecialKillThresholdSeconds
                           ELSE KILL_THRESHOLD_SECONDS)
    ]_vars

\* C5 as claimed: no evaluation emits more than one action.
C5_OneOutcomePerEvaluation ==
  \A t \in DOMAIN tasks : Len(tasks[t].acts) <= 1

\* C5 as amended: an evaluation emits Notify at most once and Terminate at
\* most once, Notify first; it emits both only when (variant 2) the elapsed
\* time it computed had already reached kill_after when it sent the report.
C5_AtMostOneOfEach ==
  [][\A t \in 1..BATCH_SIZE : Steps(t) =>
       /\ tasks'[t].acts \in {<<>>, <<"Notify">>, <<"Terminate">>, <<"Notify", "Terminate">>}
       /\ (Emits(t, "Terminate") /\ tasks[t].acts = <<"Notify">>)
            => /\ variant = 2
               /\ tasks[t].pc = "notify"
               /\ tasks[t].elapsedTime >= customKillThresholdSeconds(tasks[t].srv.nest)
               /\ tasks[t].elapsedTime >= REPORT_THRESHOLD_SECONDS
    ]_vars

\* an evaluation that has emitted Notify and then Terminate
C5_Witness ==
  \E t \in DOMAIN tasks : tasks[t].acts = <<"Notify", "Terminate">>

\* C6: no evaluation task ends with a thrown failure and the poll loop never
\* stops on one.
C6_NoFailureEscapes ==
  /\ pc # "crashed"
  /\ \A t \in DOMAIN tasks : tasks[t].pc # "failed"

\* C7: a directory fetch that fails on any page gives the main loop an empty
\* directory: no batch is issued, no task runs, no record changes; the loop
\* sleeps, and the only way on is the next cycle, which is always open.
C7_DirectoryFailureSkipsCycle ==
  [][/\ (failedPage = 0 /\ failedPage' # 0)
          => /\ servers' = <<>> /\ tasks' = <<>> /\ issued' = <<>>
             /\ pc' = "cycleDelay"
             /\ overLimitTracker' = overLimitTracker
             /\ episodeNotifies' = episodeNotifies
     /\ failedPage # 0
          => /\ pc = "cycleDelay" /\ tasks = <<>>
             /\ ENABLED CycleDelayDone
             /\ overLimitTracker' = overLimitTracker
             /\ pc' # pc => (pc' = "dir" /\ failedPage' = 0)
    ]_vars

\* the directory failed on its second page, with a record in the tracker, and
\* the loop sleeps
C7_Witness ==
  /\ failedPage = 2
  /\ pc = "cycleDelay"
  /\ overLimitTracker # <<>>

\* C8: the batches issued in a cycle are the slices of BATCH_SIZE servers of
\* the directory, in order; no more than BATCH_SIZE evaluations are in flight;
\* and the cycle does not end or stop before the last batch was issued.
C8_Batching ==
  /\ \A k \in 1..Len(issued) : issued[k] = Uuids(Slice(servers, (k - 1) * BATCH_SIZE))
  /\ Len(issued) <= NumBatches(Len(servers))
  /\ Cardinality(InFlight) <= BATCH_SIZE
  /\ pc = "cycleDelay" => Len(issued) = NumBatches(Len(servers))
  /\ Stopped => Len(issued) = NumBatches(Len(servers))

\* C9: no two evaluations of the same identifier are in flight together.
C9_NoConcurrentSameId ==
  \A t1, t2 \in InFlight : tasks[t1].srv.uuid = tasks[t2].srv.uuid => t1 = t2

\* C10: a request that never returns does not stall the batch: once the other
\* tasks of the batch have returned, the batch completes.
C10_HangStallsOnlyItsTask ==
  (/\ pc = "batch"
   /\ \A t \in DOMAIN tasks : tasks[t].pc \in {"done", "hung"}
   /\ \E t \in DOMAIN tasks : tasks[t].pc = "hung")
    => ENABLED BatchJoin

\* C11: fetchWithRetry sends at most RETRY_LIMIT + 1 requests and always
\* returns; it goes on to another request only after status 504 with retries
\* left; it returns the JSON exactly when the response is good, and null after
\* every other answer; what it returns and the requests it sent are those of
\* the operator fetchWithRetry on the same answers.
C11_RetryOnly504 ==
  /\ [](/\ call.requests <= RETRY_LIMIT + 1
        /\ call.result \in {"pending", "json", "null"}
        /\ call.result = "pending" => ENABLED FetchNext
        /\ call.result # "pending" =>
             /\ call.result = fetchWithRetry(call.answers, RETRY_LIMIT).data
             /\ call.requests = fetchWithRetry(call.answers, RETRY_LIMIT).requests)
  /\ [][call' # call =>
         /\ call.result = "pending"
         /\ call'.requests = call.requests + 1
         /\ (call'.result = "pending") <=> (NextAnswer = "504" /\ call.retries > 0)
         /\ (call'.result = "pending") => (call'.retries = call.retries - 1)
         /\ (call'.result = "json") <=> (NextAnswer = "ok")
         /\ (call'.result = "null") <=>
              (NextAnswer \in {"status", "neterr", "badjson"}
               \/ (NextAnswer = "504" /\ call.retries = 0))
      ]_vars

\* status 504 on the request sent with no retry left: null after 4 requests
C11_Witness ==
  /\ call.result = "null"
  /\ call.requests = RETRY_LIMIT + 1
  /\ call.retries = 0
  /\ call.answers[call.requests] = "504"

\* C12: (variant 2) whatever a delivery comes back with (good status, error
\* status, network error), the evaluation goes on as after a success: when the report's
\* delivery has returned the record has reported = true, when the kill request
\* has returned the audit entry is sent, and when the audit's delivery has
\* returned the record is deleted.
C12_DeliveryFailuresNoEffect ==
  [][\A t \in 1..BATCH_SIZE : (variant = 2 /\ Steps(t) /\ tasks'[t].pc # "hung") =>
       LET u == tasks[t].srv.uuid
       IN /\ tasks[t].pc = "notify" =>
               (u \in DOMAIN overLimitTracker' /\ overLimitTracker'[u].reported)
          /\ tasks[t].pc = "kill" => tasks'[t].pc = "log"
          /\ tasks[t].pc = "log" =>
               (tasks'[t].pc = "done" /\ u \notin DOMAIN overLimitTracker')
    ]_vars

\* C13: a server whose three limits are 0 is never found over its limits,
\* whatever the snapshot: its evaluations emit nothing, wait for no delivery,
\* and it has no record.
C13_UnlimitedNeverBreaches ==
  \A t \in DOMAIN tasks : tasks[t].srv.limits = NoLimits =>
    /\ tasks[t].found # "over"
    /\ tasks[t].acts = <<>>
    /\ tasks[t].pc \notin {"notify", "kill", "log"}
    /\ tasks[t].srv.uuid \notin DOMAIN overLimitTracker

\* a server without limits has been evaluated, in a later cycle
C13_Witness ==
  /\ now > 0
  /\ \E t \in DOMAIN tasks : tasks[t].srv.limits = NoLimits /\ tasks[t].found = "ok"

\* C14: the breach test finds a breach exactly when cpu usage >= a non-zero
\* cpu limit, or memory bytes >= a non-zero memory limit in MB times 1024^2,
\* or disk bytes >= a non-zero disk limit in MB times 1024^2.
C14_BreachInclusive ==
  probe.breach # "none" =>
    ((probe.breach = "over") <=>
       \/ (probe.limits.cpu > 0 /\ probe.resources.cpu_absolute >= probe.limits.cpu)
       \/ (probe.limits.memory > 0
             /\ probe.resources.memory_bytes >= probe.limits.memory * 1024 * 1024)
       \/ (probe.limits.disk > 0
             /\ probe.resources.disk_bytes >= probe.limits.disk * 1024 * 1024))

\* memory usage exactly at a non-zero limit, cpu and disk one unit below
\* theirs: a breach
C14_Witness ==
  /\ probe.breach = "over"
  /\ probe.limits.memory > 0 /\ probe.limits.cpu > 0 /\ probe.limits.disk > 0
  /\ probe.resources.memory_bytes = probe.limits.memory * 1024 * 1024
  /\ probe.resources.cpu_absolute = probe.limits.cpu - 1
  /\ probe.resources.disk_bytes = probe.limits.disk * 1024 * 1024 - 1

NotExcluded(e) == e.nest \notin {1, 6}

\* C15: the directory collects, and on its last page returns, exactly the
\* listed entries whose nest is neither 1 nor 6, in the order the pages listed
\* them; no entry of nest 1 or 6 is evaluated, and a server listed only with
\* such a nest has no record and is never reported.
C15_DirectoryExcludesNests ==
  /\ pc = "dir" => serverUUIDs = SelectSeq(listed, NotExcluded)
  /\ (pc # "dir" /\ failedPage = 0) => servers = SelectSeq(listed, NotExcluded)
  /\ \A k \in 1..Len(servers) : NotExcluded(servers[k])
  /\ \A t \in DOMAIN tasks : NotExcluded(tasks[t].srv)
  /\ "g" \notin DOMAIN overLimitTracker
  /\ episodeNotifies["g"] = 0

\* page 1 listed a server of nest 1, page 2 one of nest 2: the directory is
\* the second alone, and it is being evaluated
C15_Witness ==
  /\ listed = <<SrvG, SrvA>>
  /\ servers = <<SrvA>>
  /\ pc = "batch"
  /\ tasks[1].found = "over"

\* C16: (variant 2) Notify is emitted only by an evaluation whose elapsed time
\* is at least REPORT_THRESHOLD_SECONDS, Terminate only by one whose elapsed
\* time is at least its kill threshold; an evaluation that finds the server
\* over its limits below both emits nothing, sends nothing, and leaves the
\* record there, with the startTime and reported it had if it had one.
C16_NoPrematureEscalation ==
  [][\A t \in 1..BATCH_SIZE : (variant = 2 /\ Steps(t)) =>
       LET u == tasks[t].srv.uuid
           killAfter == customKillThresholdSeconds(tasks[t].srv.nest)
       IN /\ Emits(t, "Notify") => ElapsedAt(t) >= REPORT_THRESHOLD_SECONDS
          /\ Emits(t, "Terminate") => ElapsedAt(t) >= killAfter
          /\ (/\ Evaluates(t) /\ tasks'[t].found = "over"
              /\ ElapsedAt(t) < REPORT_THRESHOLD_SECONDS /\ ElapsedAt(t) < killAfter)
               => /\ tasks'[t].acts = <<>>
                  /\ tasks'[t].pc = "done"
                  /\ u \in DOMAIN overLimitTracker'
                  /\ u \in DOMAIN overLimitTracker =>
                       /\ overLimitTracker'[u].startTime = overLimitTracker[u].startTime
                       /\ overLimitTracker'[u].reported = overLimitTracker[u].reported
    ]_vars

\* an evaluation found the server over its limits one TimeStep after the
\* breach began and did nothing
C16_Witness ==
  /\ variant = 2
  /\ \E t \in DOMAIN tasks :
       /\ tasks[t].found = "over" /\ tasks[t].pc = "done" /\ tasks[t].acts = <<>>
       /\ tasks[t].srv.uuid \in DOMAIN overLimitTracker
       /\ now - overLimitTracker[tasks[t].srv.uuid].startTime = TimeStep
       /\ ~overLimitTracker[tasks[t].srv.uuid].reported

\* C17: an evaluation whose snapshot fetch is null returns at once: it emits
\* nothing and the tracker is what it was, so a record keeps its startTime and
\* reported, and none is created.
C17_NullSnapshotChangesNothing ==
  [][\A t \in 1..BATCH_SIZE :
       (/\ Steps(t) /\ tasks[t].pc = "fetch"
        /\ tasks'[t].pc = "done" /\ tasks'[t].found = "none")
         => /\ overLimitTracker' = overLimitTracker
            /\ tasks'[t].acts = <<>>
    ]_vars

\* a server with a record older than now was evaluated without data
C17_Witness ==
  \E t \in DOMAIN tasks :
    /\ tasks[t].pc = "done" /\ tasks[t].found = "none"
    /\ tasks[t].srv.uuid \in DOMAIN overLimitTracker
    /\ variant = 2
    /\ overLimitTracker[tasks[t].srv.uuid].startTime < now

\* C18: (variant 2) a server that every directory lists, whose snapshot fetch
\* always succeeds and always finds it over its limits, is eventually reported
\* (Notify) and eventually killed (Terminate).
C18_EscalationHappens ==
  /\ <>(\E t \in DOMAIN tasks :
          tasks[t].srv.uuid = "a" /\ \E k \in DOMAIN tasks[t].acts : tasks[t].acts[k] = "Notify")
  /\ <>(\E t \in DOMAIN tasks :
          tasks[t].srv.uuid = "a" /\ \E k \in DOMAIN tasks[t].acts : tasks[t].acts[k] = "Terminate")

\* the server was reported by an earlier evaluation and is being killed by
\* this one
C18_Witness ==
  /\ pc = "batch"
  /\ tasks[1].pc = "kill"
  /\ tasks[1].acts = <<"Terminate">>
  /\ "a" \in DOMAIN overLimitTracker
  /\ overLimitTracker["a"].reported

\* C19: when an evaluation emits Terminate, the server's record has
\* reported = true, and either this evaluation has emitted Notify before or
\* the record was already reported when the evaluation came to the kill.
C19_NotifyBeforeTerminate ==
  [][\A t \in 1..BATCH_SIZE : Emits(t, "Terminate") =>
       LET u == tasks[t].srv.uuid
       IN /\ u \in DOMAIN overLimitTracker' /\ overLimitTracker'[u].reported
          /\ \/ tasks[t].acts = <<"Notify">>
             \/ (/\ tasks[t].acts = <<>>
                 /\ u \in DOMAIN overLimitTracker /\ overLimitTracker[u].reported)
    ]_vars

\* a server reported in an earlier cycle has been killed by this evaluation,
\* which now sends the audit entry
C19_Witness ==
  \E t \in DOMAIN tasks :
    /\ tasks[t].pc = "log"
    /\ tasks[t].acts = <<"Terminate">>
    /\ tasks[t].srv.uuid \in DOMAIN overLimitTracker
    /\ overLimitTracker[tasks[t].srv.uuid].reported

\* C20: a record keeps the startTime it was created with as long as it is
\* there, and the record of a server is created, changed or deleted only in a
\* step of an evaluation of that server.
C20_RecordFrame ==
  [][\A u \in UUIDs :
       /\ (variant = 2 /\ u \in DOMAIN overLimitTracker /\ u \in DOMAIN overLimitTracker')
            => overLimitTracker'[u].startTime = overLimitTracker[u].startTime
       /\ (\/ (u \in DOMAIN overLimitTracker) # (u \in DOMAIN overLimitTracker')
           \/ (u \in DOMAIN overLimitTracker /\ u \in DOMAIN overLimitTracker'
               /\ overLimitTracker'[u] # overLimitTracker[u]))
            => \E t \in 1..BATCH_SIZE : Steps(t) /\ tasks[t].srv.uuid = u
    ]_vars

\* a cycle whose directory did not list server a has gone through, a's
\* record of an earlier cycle is still there, and time has passed since
C20_Witness ==
  /\ variant = 2
  /\ pc = "cycleDelay"
  /\ failedPage = 0
  /\ \A k \in 1..Len(servers) : servers[k].uuid # "a"
  /\ "a" \in DOMAIN overLimitTracker
  /\ overLimitTracker["a"].startTime < now

====
